---- MODULE Spec2Model ----
(***************************************************************************)
(* Bass reactive NeoPixel strips (main.py, audio_handler.py,               *)
(* button_handler.py) as a state machine.                                  *)
(*                                                                         *)
(* Floats are modelled as exact rationals: a float value is carried as a   *)
(* numerator over a positive denominator, and int() / // are computed on   *)
(* the quotient.  Rounding error of the 32 bit float unit is not modelled. *)
(*                                                                         *)
(* Specifications, all over the same variables:                            *)
(*   Spec          the five modes, presses between steps, bounded frames   *)
(*   SpecLong      reactive frames until the hue cursor wraps              *)
(*   SpecAcquire   the reactive frame with sample() read by read, and the  *)
(*                 failure of a read                                       *)
(*   SpecBatch     AudioHandler.sample under a caller that goes on after a *)
(*                 failure                                                 *)
(*   SpecButton    ButtonHandler: pin edges, interrupt handler, timer      *)
(*   SpecPress     the polling modes with mode_switched in two steps       *)
(*   SpecEncoder   the encoder and the two expressions that read it        *)
(*   SpecSmoother, SpecMap, SpecSample, SpecWheel    one function each     *)
(***************************************************************************)
EXTENDS Integers, Sequences, FiniteSets, TLC

(***************************************************************************)
(* Program constants                                                       *)
(***************************************************************************)
NUM_LEDS_PER == 18
AMPLITUDE_PEAK == 5000
REACTIVE_COLOR_CHANGE_SPEED == 3
COLOR_INDEX_MAX == 256 * REACTIVE_COLOR_CHANGE_SPEED
REACT_CROSSOVER == 400
OFF == <<0, 0, 0>>
PURPLE == <<180, 0, 255>>
\* Python's None, as the empty tuple so that it compares with colours
None == <<>>
\* len(brightness_list): brightness_list = [100 for _ in range(6)]
K == 6
\* range(255) of the rainbow loops
RAINBOW_STEPS == 255
\* RotaryIRQ(min_val=0, max_val=50, range_mode=RANGE_BOUNDED)
ENCODER_MIN == 0
ENCODER_MAX == 50
\* the wait the main loop passes to every mode function
WAIT == 100
\* time.ticks_us() counts microseconds; sample_secs = ticks / 1_000_000
TICKS_PER_SEC == 1000000

(***************************************************************************)
(* Bounds of the model                                                     *)
(***************************************************************************)
\* AudioHandler.num_samples (256 on the device)
num_samples == 6
\* reactive frames in one run of the program level specification Spec
MaxFrames == 3

VARIABLES
    \* main.py module state
    brightness_list,      \* the K slots of the brightness history (1..K for Python's 0..K-1)
    brightness_index,     \* write cursor into brightness_list, 0-based as in the code
    avg_brightness,
    color_index,
    last_non_zero_color,
    click_detected,
    click_index,
    click_functions,      \* config['modes'], fixed at start-up
    np_left,              \* NeoPixel: [buf |-> pixel buffer, leds |-> what write() last sent]
    np_right,
    \* position of the main execution context
    pc,
    j,                    \* loop variable of rainbow / rainbow_cycle
    \* locals of the last reactive call: brightness, the average its push
    \* returned, color as computed (line 182) and as sent out (line 192)
    frame,
    \* reactive frames run so far (counted only where a specification bounds them)
    frames,
    \* arguments and result of the function under test (function level specifications)
    args,
    result,
    \* audio_handler.py: AudioHandler.samples and the readings the acquisition
    \* loop of the running sample() call has taken
    samples,
    reads,
    \* main.py: the value the rotary encoder holds
    encoder_value,
    \* button_handler.py: ButtonHandler._tmp (<<>> for None, <<v>> for the
    \* latched level v), whether its one-shot timer is armed, the level of
    \* the button pin, whether a pin edge waits for the interrupt handler,
    \* and the number of calls of the callback so far
    tmp,
    timer,
    pin,
    irq,
    confirmed

\* the state of the sampling and encoder hardware side
device == <<samples, reads, encoder_value>>
\* the state of the debounced button
handler == <<tmp, timer, pin, irq, confirmed>>

vars == <<brightness_list, brightness_index, avg_brightness, color_index,
          last_non_zero_color, click_detected, click_index, click_functions,
          np_left, np_right, pc, j, frame, frames, args, result,
          samples, reads, encoder_value, tmp, timer, pin, irq, confirmed>>

(***************************************************************************)
(* Arithmetic helpers                                                      *)
(***************************************************************************)
Max(a, b) == IF a >= b THEN a ELSE b
Min(a, b) == IF a <= b THEN a ELSE b

\* Python's int() of the quotient n/d (d > 0): truncation toward zero
IntTrunc(n, d) == IF n >= 0 THEN n \div d ELSE -((-n) \div d)

RECURSIVE SumSeq(_)
SumSeq(s) == IF s = <<>> THEN 0 ELSE Head(s) + SumSeq(Tail(s))

\* mutant of map_value: the result is not capped at out_max
map_value_uncapped(x, xd, in_min, in_max, out_min, out_max) ==
    Max(((x - in_min * xd) * (out_max - out_min)) \div ((in_max - in_min) * xd) + out_min,
        out_min)

(***************************************************************************)
(* main.py: map_value                                                      *)
(* x is the float x/xd (xd > 0); the other arguments are ints.             *)
(*   (x/xd - in_min) * (out_max - out_min) // (in_max - in_min)            *)
(*     = floor( (x - in_min*xd) * (out_max - out_min)                      *)
(*              / ((in_max - in_min) * xd) )                               *)
(***************************************************************************)
map_value(x, xd, in_min, in_max, out_min, out_max) ==
    Max(Min(out_max,
            ((x - in_min * xd) * (out_max - out_min)) \div ((in_max - in_min) * xd)
              + out_min),
        out_min)

\* mutant of apply_brightness: round() where the code has int()
apply_brightness_round(cv, q, avg) == (cv * avg + 50 * q) \div (100 * q)

(***************************************************************************)
(* main.py: apply_brightness, with the global avg_brightness it reads      *)
(* passed as avg.  color_value is the float cv/q.                          *)
(***************************************************************************)
apply_brightness(cv, q, avg) == IntTrunc(cv * avg, 100 * q)

(***************************************************************************)
(* main.py: wheel.  pos is the float p/q (q > 0): reactive passes          *)
(* color_index / REACTIVE_COLOR_CHANGE_SPEED, the rainbow modes an int.    *)
(* 255 - pos * 3 is the float (255*q - 3*p)/q.                             *)
(***************************************************************************)
wheel(p, q, avg) ==
    IF p < 0 \/ p > 255 * q THEN <<0, 0, 0>>
    ELSE IF p < 85 * q
         THEN <<apply_brightness(255 * q - p * 3, q, avg),
                apply_brightness(p * 3, q, avg), 0>>
    ELSE IF p < 170 * q
         THEN LET p2 == p - 85 * q
              IN  <<0, apply_brightness(255 * q - p2 * 3, q, avg),
                    apply_brightness(p2 * 3, q, avg)>>
    ELSE LET p3 == p - 170 * q
         IN  <<apply_brightness(p3 * 3, q, avg), 0,
               apply_brightness(255 * q - p3 * 3, q, avg)>>

\* mutant of average_brightness: the cursor is never wrapped
average_brightness_nowrap(list, index, new_value) ==
    LET list2 == [list EXCEPT ![index + 1] = new_value]
    IN  [list |-> list2, index |-> index + 1,
         ret  |-> IntTrunc(SumSeq(list2), Len(list2))]

\* mutant of average_brightness: the cursor wraps one slot early
average_brightness_short(list, index, new_value) ==
    LET list2  == [list EXCEPT ![index + 1] = new_value]
        index1 == index + 1
        index2 == IF index1 = Len(list2) - 1 THEN 0 ELSE index1
    IN  [list |-> list2, index |-> index2,
         ret  |-> IntTrunc(SumSeq(list2), Len(list2))]

(***************************************************************************)
(* main.py: average_brightness.  Returns the new list, the new cursor and  *)
(* the value returned, int(np.mean(brightness_list)).                      *)
(***************************************************************************)
average_brightness(list, index, new_value) ==
    LET list2  == [list EXCEPT ![index + 1] = new_value]
        index1 == index + 1
        index2 == IF index1 = Len(list2) THEN 0 ELSE index1
    IN  [list |-> list2, index |-> index2,
         ret  |-> IntTrunc(SumSeq(list2), Len(list2))]

(***************************************************************************)
(* audio_handler.py: the scan of AudioHandler.sample over the spectrum.    *)
(* output is the spectrogram (a function on bin indices), ticks the        *)
(* measured duration in microseconds; freq = i / sample_secs is the float  *)
(* i*TICKS_PER_SEC/ticks, so freq < crossover iff                          *)
(* i*TICKS_PER_SEC < crossover*ticks.  fund is the index whose frequency   *)
(* fundamental_freq holds, 0 while it still holds its initial 0.           *)
(***************************************************************************)
\* mutant of is_new_max: a tie moves the fundamental to the later bin
is_new_max_or_tie(mag, max_magnitude) == mag >= max_magnitude

\* line 49: mag > max_magnitude
is_new_max(mag, max_magnitude) == mag > max_magnitude

\* mutant of is_low_freq: a bin at the crossover counts as bass
is_low_freq_or_at(i, ticks, crossover) == i * TICKS_PER_SEC <= crossover * ticks

\* line 52: freq < self.crossover, freq = i * 1.0 / sample_secs
is_low_freq(i, ticks, crossover) == i * TICKS_PER_SEC < crossover * ticks

\* line 45: range(1, int(self.num_samples / 2) + 1)
first_bin == 1
last_bin(n) == n \div 2

RECURSIVE scan(_, _, _, _, _, _)
scan(output, ticks, crossover, i, last, acc) ==
    IF i > last THEN acc
    ELSE LET mag  == output[i]
             acc1 == IF is_new_max(mag, acc.max_magnitude)
                     THEN [acc EXCEPT !.fund = i, !.max_magnitude = mag]
                     ELSE acc
             acc2 == IF is_low_freq(i, ticks, crossover)
                        /\ mag > acc1.max_low_freq_mag
                     THEN [acc1 EXCEPT !.max_low_freq_mag = mag]
                     ELSE acc1
         IN  scan(output, ticks, crossover, i + 1, last, acc2)

\* AudioHandler.sample after the acquisition: fundamental_freq as the float
\* num/den, low_freq_amp as the float num/den
sample(output, ticks, crossover, n) ==
    LET acc == scan(output, ticks, crossover, first_bin, last_bin(n),
                    [fund |-> 0, max_magnitude |-> 0, max_low_freq_mag |-> 0])
    IN  [fundamental_freq |-> IF acc.fund = 0 THEN <<0, 1>>
                              ELSE <<acc.fund * TICKS_PER_SEC, ticks>>,
         low_freq_amp     |-> <<acc.max_low_freq_mag * 2, n>>]

(***************************************************************************)
(* NeoPixel: fill, item assignment and write                               *)
(***************************************************************************)
Pixels == 1..NUM_LEDS_PER
NeoPixel == [buf |-> [i \in Pixels |-> OFF], leds |-> [i \in Pixels |-> OFF]]
fill(np, color) == [np EXCEPT !.buf = [i \in Pixels |-> color]]
write(np) == [np EXCEPT !.leds = np.buf]

(***************************************************************************)
(* Inputs of the program level specification                               *)
(***************************************************************************)
\* config['modes'] of config.json
Configs == { <<"reactive", "rainbow">>,
             <<"rainbow_cycle", "reactive">>,
             <<"reactive", "all_purple", "on_off">> }
\* config['modes'] of the long runs: no 255 step rainbow loop beside the cursor
LongConfigs == { <<"reactive">>, <<"reactive", "all_purple">> }
\* spectrogram magnitudes a bin can hold
Magnitudes == {0, 4000, 9000, 20000}
Bins == 0..(num_samples \div 2)
\* spectra a reactive frame can meet: silence, and a bass note loud enough
\* for full brightness; bin 0 carries the DC offset of the microphone
Silence == [i \in Bins |-> IF i = 0 THEN 20000 ELSE 0]
FrameSpectra == { Silence, [Silence EXCEPT ![1] = 20000] }
\* the long runs stay silent: 769 frames of a varying history are out of
\* reach of the model checker
LongSpectra == { Silence }
\* measured duration of a batch in microseconds
FrameTicks == {10000}
\* encoder.value()
EncoderValues == {ENCODER_MIN, ENCODER_MAX}

(***************************************************************************)
(* Initial state: main.py lines 34-65 and 199-202                          *)
(***************************************************************************)
\* the module state but avg_brightness
Machine(configs) ==
    /\ brightness_list = [i \in 1..K |-> 100]
    /\ brightness_index = 0
    /\ color_index = 0
    /\ last_non_zero_color = None
    /\ click_detected = FALSE
    /\ click_index = 0
    /\ click_functions \in configs
    /\ np_left = NeoPixel
    /\ np_right = NeoPixel
    /\ j = 0
    /\ frame = [brightness |-> 0, returned |-> 0, color |-> None, emitted |-> None]
    /\ frames = 0
    /\ samples = <<>>
    /\ reads = 0
    /\ encoder_value = ENCODER_MIN
    /\ tmp = None
    /\ timer = FALSE
    /\ pin = 1
    /\ irq = FALSE
    /\ confirmed = 0

\* the program about to enter its main loop
Start(configs) ==
    /\ Machine(configs)
    /\ avg_brightness = 100
    /\ pc = "loop"
    /\ args = None
    /\ result = None

\* mutant of button_pressed: a mode switch restarts the colour cycle
button_pressed_restart ==
    /\ click_index' = (click_index + 1) % Len(click_functions)
    /\ avg_brightness' = 100
    /\ click_detected' = TRUE
    /\ color_index' = 0
    /\ UNCHANGED <<brightness_list, brightness_index,
                   last_non_zero_color, click_functions, np_left, np_right,
                   pc, j, frame, frames, args, result, device>>

(***************************************************************************)
(* main.py: button_pressed, the callback of the debounced button; it runs  *)
(* in interrupt context, between any two steps of the main context.        *)
(***************************************************************************)
button_pressed ==
    /\ click_index' = (click_index + 1) % Len(click_functions)
    /\ avg_brightness' = 100
    /\ click_detected' = TRUE
    /\ UNCHANGED <<brightness_list, brightness_index, color_index,
                   last_non_zero_color, click_functions, np_left, np_right,
                   pc, j, frame, frames, args, result, device>>

\* a confirmed press, the debounce in front of it left out
press ==
    /\ button_pressed
    /\ UNCHANGED handler

(***************************************************************************)
(* main.py: the main loop, while True: click_functions[click_index](100)   *)
(***************************************************************************)
dispatch ==
    /\ pc = "loop"
    /\ pc' = click_functions[click_index + 1]
    /\ j' = 0
    /\ UNCHANGED <<brightness_list, brightness_index, avg_brightness, color_index,
                   last_non_zero_color, click_detected, click_index,
                   click_functions, np_left, np_right, frame, frames, args, result, device, handler>>

(***************************************************************************)
(* main.py: reactive, lines 176-181: sample, map the amplitude, push it    *)
(* into the history and store the returned average.                        *)
(***************************************************************************)
reactive_push(spectra) ==
    /\ pc = "reactive"
    /\ \E output \in spectra, ticks \in FrameTicks, encoder \in EncoderValues :
         LET low_freq_amp == sample(output, ticks, REACT_CROSSOVER, num_samples).low_freq_amp
             brightness == map_value(low_freq_amp[1], low_freq_amp[2], 0,
                                     AMPLITUDE_PEAK - (encoder * 50), 20, 100)
             pushed == average_brightness(brightness_list, brightness_index, brightness)
         IN  /\ brightness_list' = pushed.list
             /\ brightness_index' = pushed.index
             /\ avg_brightness' = pushed.ret
             /\ frame' = [brightness |-> brightness, returned |-> pushed.ret,
                          color |-> None, emitted |-> None]
    /\ pc' = "reactive_color"
    /\ UNCHANGED <<color_index, last_non_zero_color, click_detected, click_index,
                   click_functions, np_left, np_right, j, args, result, device, handler>>

\* mutant of remember: the cache follows every computed colour
remember_always(last, color) == color

\* lines 183-184: the value last_non_zero_color holds after them
remember(last, color) == IF last = None \/ color # OFF THEN color ELSE last

\* mutant of substitute: no substitution
substitute_never(last, color) == color

\* lines 185-186: the colour sent to the strips, last being the cache after
\* lines 183-184
substitute(last, color) == IF color = OFF THEN last ELSE color

\* line 191
advance(index) == IF index # COLOR_INDEX_MAX THEN index + 1 ELSE 0

\* mutant of reactive_render: the hue cursor is advanced before the colour
\* is computed
reactive_render_advanced ==
    /\ pc = "reactive_color"
    /\ LET color  == wheel(advance(color_index), REACTIVE_COLOR_CHANGE_SPEED, avg_brightness)
           cached == remember(last_non_zero_color, color)
           shown  == substitute(cached, color)
       IN  /\ last_non_zero_color' = cached
           /\ color_index' = advance(color_index)
           /\ np_left' = write(fill(np_left, shown))
           /\ np_right' = write(fill(np_right, shown))
           /\ frame' = [frame EXCEPT !.color = color, !.emitted = shown]
    /\ pc' = "loop"
    /\ UNCHANGED <<brightness_list, brightness_index, avg_brightness, click_detected,
                   click_index, click_functions, j, frames, args, result, device, handler>>

(***************************************************************************)
(* main.py: reactive, lines 182-195: the colour, the flicker substitution, *)
(* the cursor advance and the output to both strips.  The two reads of     *)
(* avg_brightness inside wheel are taken in one step.                      *)
(***************************************************************************)
reactive_render ==
    /\ pc = "reactive_color"
    /\ LET color  == wheel(color_index, REACTIVE_COLOR_CHANGE_SPEED, avg_brightness)
           cached == remember(last_non_zero_color, color)
           shown  == substitute(cached, color)
       IN  /\ last_non_zero_color' = cached
           /\ color_index' = advance(color_index)
           /\ np_left' = write(fill(np_left, shown))
           /\ np_right' = write(fill(np_right, shown))
           /\ frame' = [frame EXCEPT !.color = color, !.emitted = shown]
    /\ pc' = "loop"
    /\ UNCHANGED <<brightness_list, brightness_index, avg_brightness, click_detected,
                   click_index, click_functions, j, frames, args, result, device, handler>>

(***************************************************************************)
(* main.py: one_color, through on_off and all_purple                       *)
(***************************************************************************)
one_color(color) ==
    /\ np_left' = write(fill(np_left, color))
    /\ np_right' = write(fill(np_right, color))
    /\ pc' = "one_color_poll"
    /\ UNCHANGED <<brightness_list, brightness_index, avg_brightness, color_index,
                   last_non_zero_color, click_detected, click_index,
                   click_functions, j, frame, frames, args, result, device, handler>>

on_off ==
    /\ pc = "on_off"
    /\ one_color(OFF)

all_purple ==
    /\ pc = "all_purple"
    /\ one_color(PURPLE)

\* lines 95-97: if mode_switched(): return; time.sleep_ms(50); return
one_color_poll ==
    /\ pc = "one_color_poll"
    /\ click_detected' = FALSE
    /\ pc' = "loop"
    /\ UNCHANGED <<brightness_list, brightness_index, avg_brightness, color_index,
                   last_non_zero_color, click_index, click_functions,
                   np_left, np_right, j, frame, frames, args, result, device, handler>>

(***************************************************************************)
(* main.py: rainbow, one iteration of the j loop in two steps              *)
(***************************************************************************)
\* lines 121-126
rainbow_draw ==
    /\ pc = "rainbow"
    /\ np_left' = write([np_left EXCEPT !.buf =
            [i \in Pixels |-> wheel(((i - 1) * 5 + j) % 256, 1, avg_brightness)]])
    /\ np_right' = write([np_right EXCEPT !.buf =
            [i \in Pixels |->
                wheel((((i - 1) + NUM_LEDS_PER) * 5 + j) % 256, 1, avg_brightness)]])
    /\ pc' = "rainbow_poll"
    /\ UNCHANGED <<brightness_list, brightness_index, avg_brightness, color_index,
                   last_non_zero_color, click_detected, click_index,
                   click_functions, j, frame, frames, args, result, device, handler>>

\* lines 127-129 and the loop header: mode_switched() returns, else sleep and
\* go on with the next j, or return after the last
rainbow_poll ==
    /\ pc = "rainbow_poll"
    /\ click_detected' = FALSE
    /\ IF click_detected \/ j + 1 = RAINBOW_STEPS
       THEN pc' = "loop" /\ j' = j
       ELSE pc' = "rainbow" /\ j' = j + 1
    /\ UNCHANGED <<brightness_list, brightness_index, avg_brightness, color_index,
                   last_non_zero_color, click_index, click_functions,
                   np_left, np_right, frame, frames, args, result, device, handler>>

(***************************************************************************)
(* main.py: rainbow_cycle, one iteration of the j loop in two steps        *)
(***************************************************************************)
\* lines 104-109; on_off is a function and never equals 0, so color is kept
rainbow_cycle_draw ==
    /\ pc = "rainbow_cycle"
    /\ LET color == wheel(j, 1, avg_brightness)
       IN  /\ np_left' = fill(np_left, color)
           /\ np_right' = fill(np_right, color)
    /\ pc' = "rainbow_cycle_poll"
    /\ UNCHANGED <<brightness_list, brightness_index, avg_brightness, color_index,
                   last_non_zero_color, click_detected, click_index,
                   click_functions, j, frame, frames, args, result, device, handler>>

\* lines 110-114 and the loop header
rainbow_cycle_poll ==
    /\ pc = "rainbow_cycle_poll"
    /\ click_detected' = FALSE
    /\ IF click_detected
       THEN /\ pc' = "loop"
            /\ UNCHANGED <<np_left, np_right, j>>
       ELSE /\ np_left' = write(np_left)
            /\ np_right' = write(np_right)
            /\ IF j + 1 = RAINBOW_STEPS
               THEN pc' = "loop" /\ j' = j
               ELSE pc' = "rainbow_cycle" /\ j' = j + 1
    /\ UNCHANGED <<brightness_list, brightness_index, avg_brightness, color_index,
                   last_non_zero_color, click_index, click_functions,
                   frame, frames, args, result, device, handler>>

\* a run of Spec holds at most MaxFrames reactive frames
reactive_push_bounded ==
    /\ frames < MaxFrames
    /\ frames' = frames + 1
    /\ reactive_push(FrameSpectra)

Init == Start(Configs)

Next ==
    \/ press
    \/ dispatch
    \/ reactive_push_bounded
    \/ reactive_render
    \/ on_off
    \/ all_purple
    \/ one_color_poll
    \/ rainbow_draw
    \/ rainbow_poll
    \/ rainbow_cycle_draw
    \/ rainbow_cycle_poll

Spec == Init /\ [][Next]_vars

(***************************************************************************)
(* Long runs: the reactive mode for as many frames as it takes the hue     *)
(* cursor to wrap, alone or beside a one colour mode.                      *)
(***************************************************************************)
reactive_push_long ==
    /\ reactive_push(LongSpectra)
    /\ UNCHANGED frames

InitLong == Start(LongConfigs)

NextLong ==
    \/ press
    \/ dispatch
    \/ reactive_push_long
    \/ reactive_render
    \/ all_purple
    \/ one_color_poll

SpecLong == InitLong /\ [][NextLong]_vars

(***************************************************************************)
(* Function level specifications: the arguments are drawn in the initial   *)
(* state, one action applies the function and keeps what it returned.      *)
(***************************************************************************)
Idle == UNCHANGED <<avg_brightness, color_index, last_non_zero_color, click_detected,
                    click_index, click_functions, np_left, np_right, j, frame, frames,
                    device, handler>>

\* --- average_brightness ------------------------------------------------
\* values pushed into the smoother
PushValues == {0, 20, 57, 100}

\* args is the reference window: the K most recent values, oldest first,
\* the initial 100s standing for pushes not yet made
InitSmoother ==
    /\ Machine({<<"reactive">>})
    /\ avg_brightness = 100
    /\ pc = "call"
    /\ args = [i \in 1..K |-> 100]
    /\ result = 0

call_average_brightness ==
    /\ \E v \in PushValues :
         LET pushed == average_brightness(brightness_list, brightness_index, v)
         IN  /\ brightness_list' = pushed.list
             /\ brightness_index' = pushed.index
             /\ result' = pushed.ret
             /\ args' = Append(Tail(args), v)
    /\ pc' = "return"
    /\ Idle

SpecSmoother == InitSmoother /\ [][call_average_brightness]_vars

\* --- map_value ---------------------------------------------------------
MaxCeiling == 8
MaxAmplitude == 24
\* in_max: small ceilings, and AMPLITUDE_PEAK - encoder.value() * 50
Ceilings == (1..MaxCeiling)
            \cup { AMPLITUDE_PEAK - (e * 50) : e \in {ENCODER_MIN, 25, ENCODER_MAX} }
\* numerators of the amplitude
MapAmplitudes == (0..MaxAmplitude) \cup { k * 625 : k \in 0..9 }
                 \cup { c + d : c \in {2500, 5000, 30000}, d \in {-1, 0, 1} }

InitMap ==
    /\ Machine({<<"reactive">>})
    /\ avg_brightness = 100
    /\ pc = "call"
    /\ args \in [x : MapAmplitudes, xd : {1, num_samples}, in_max : Ceilings]
    /\ result = 0

call_map_value ==
    /\ pc = "call"
    /\ result' = map_value(args.x, args.xd, 0, args.in_max, 20, 100)
    /\ pc' = "return"
    /\ UNCHANGED <<brightness_list, brightness_index, args>>
    /\ Idle

SpecMap == InitMap /\ [][call_map_value]_vars

\* --- AudioHandler.sample ----------------------------------------------
\* measured durations in microseconds: bin 1 at 400, 200 and 100 Hz
Ticks == {2500, 5000, 10000}
Crossovers == {REACT_CROSSOVER, 250}

InitSample ==
    /\ Machine({<<"reactive">>})
    /\ avg_brightness = 100
    /\ pc = "call"
    /\ args \in [output : [Bins -> Magnitudes], ticks : Ticks, crossover : Crossovers]
    /\ result = 0

call_sample ==
    /\ pc = "call"
    /\ result' = sample(args.output, args.ticks, args.crossover, num_samples)
    /\ pc' = "return"
    /\ UNCHANGED <<brightness_list, brightness_index, args>>
    /\ Idle

SpecSample == InitSample /\ [][call_sample]_vars

\* --- wheel -------------------------------------------------------------
\* positions tried beyond either end of [0, 255]
PosMargin == 3

InitWheel ==
    /\ Machine({<<"rainbow">>})
    /\ avg_brightness \in 0..100
    /\ pc = "call"
    /\ args \in [pos : (0 - PosMargin)..(255 + PosMargin)]
    /\ result = 0

call_wheel ==
    /\ pc = "call"
    /\ result' = wheel(args.pos, 1, avg_brightness)
    /\ pc' = "return"
    /\ UNCHANGED <<brightness_list, brightness_index, args>>
    /\ Idle

SpecWheel == InitWheel /\ [][call_wheel]_vars

(***************************************************************************)
(* Properties of the reactive pipeline over long runs (SpecLong)           *)
(***************************************************************************)
IsColor(c) == c \in (0..255) \X (0..255) \X (0..255)
Shows(np, color) == \A i \in Pixels : np.buf[i] = color /\ np.leds[i] = color
\* a step of the main context that ends a reactive frame
FrameEnds == pc = "reactive_color" /\ pc' = "loop"

\* C1: the hue cursor is always in [0, COLOR_INDEX_MAX): it never holds
\* COLOR_INDEX_MAX itself.
C1_CursorBelowMax == color_index \in 0..(COLOR_INDEX_MAX - 1)

\* C2: in a reactive frame whose computed colour is (0,0,0) while a non-off
\* colour C is cached, both strips receive C and the cache keeps C; in a frame
\* whose computed colour is non-off, both strips receive it and it becomes
\* the cached value.
C2_FlickerAvoidance ==
    [][FrameEnds =>
        LET computed == wheel(color_index, REACTIVE_COLOR_CHANGE_SPEED, avg_brightness)
            C == last_non_zero_color
        IN  /\ (computed = OFF /\ C # None /\ C # OFF) =>
                 /\ Shows(np_left', C) /\ Shows(np_right', C)
                 /\ last_non_zero_color' = C
            /\ computed # OFF =>
                 /\ Shows(np_left', computed) /\ Shows(np_right', computed)
                 /\ last_non_zero_color' = computed]_vars

\* a frame computed (0,0,0) and the strips show the colour cached before it
C2_Witness ==
    /\ pc = "loop"
    /\ frame.color = OFF
    /\ frame.emitted # OFF
    /\ last_non_zero_color = frame.emitted
    /\ Shows(np_left, frame.emitted) /\ Shows(np_right, frame.emitted)

\* C3: the cached colour is unset or has a non-zero channel, and no reactive
\* frame sends (0,0,0) to the strips.
C3_CacheNeverOff ==
    /\ last_non_zero_color = None \/ (IsColor(last_non_zero_color) /\ last_non_zero_color # OFF)
    /\ frame.emitted # OFF
    \* whatever average in [20,100] the smoother holds when the colour is
    \* computed, the cache stays non-off
    /\ pc = "reactive_color" =>
         \A b \in 20..100 :
            remember(last_non_zero_color,
                     wheel(color_index, REACTIVE_COLOR_CHANGE_SPEED, b)) # OFF

\* the cursor has run past the last wheel position: the frame computed
\* (0,0,0), the cache kept its colour, and the press since has not touched it
C3_Witness ==
    /\ color_index = 0
    /\ frame.color = OFF
    /\ last_non_zero_color # None
    /\ last_non_zero_color # OFF
    /\ click_detected

\* C5: the history has exactly K entries, the write cursor is in [0, K),
\* every entry and avg_brightness are in [0, 100].
C5_HistoryShape ==
    /\ Len(brightness_list) = K
    /\ DOMAIN brightness_list = 1..K
    /\ brightness_index \in 0..(K - 1)
    /\ \A i \in 1..K : brightness_list[i] \in 0..100
    /\ avg_brightness \in 0..100

\* the write cursor has wrapped over a full history of pushed values, and a
\* press has reset avg_brightness since the last push returned 20
C5_Witness ==
    /\ brightness_index = 0
    /\ \A i \in 1..K : brightness_list[i] = 20
    /\ frame.returned = 20
    /\ avg_brightness = 100
    /\ click_detected

(***************************************************************************)
(* Properties of mode switches (Spec)                                      *)
(***************************************************************************)
Pipeline == <<brightness_list, brightness_index, color_index, last_non_zero_color>>
\* the main context stays where it is: the step is the press callback
PressStep == pc' = pc
\* a step of a reactive frame
ReactiveStep == pc \in {"reactive", "reactive_color"} /\ pc' # pc

\* C10: the press callback advances click_index by 1 modulo the number of
\* modes, sets click_detected, resets avg_brightness to 100 and leaves the
\* history, its cursor, the hue cursor and the colour cache unchanged;
\* click_index stays in [0, len(click_functions)); no step outside a reactive
\* frame changes those four.
C10_ModeSwitchKeepsPipeline ==
    [][/\ click_index' \in 0..(Len(click_functions') - 1)
       /\ PressStep =>
            /\ click_index' = (click_index + 1) % Len(click_functions)
            /\ click_detected' = TRUE
            /\ avg_brightness' = 100
            /\ Pipeline' = Pipeline
       /\ ~ReactiveStep => Pipeline' = Pipeline]_vars

\* reactive mode re-entered after the rainbow mode drew: history, cursors
\* and cache are those the first frame left
C10_Witness ==
    /\ click_functions = <<"reactive", "rainbow">>
    /\ pc = "reactive"
    /\ frames = 1
    /\ brightness_list[1] = 20
    /\ brightness_index = 1
    /\ color_index = 1
    /\ last_non_zero_color = frame.emitted
    /\ np_left.leds[1] # np_left.leds[2]

(***************************************************************************)
(* Properties of the functions                                             *)
(***************************************************************************)
\* the slots of the history read from the write cursor on: oldest first
OldestFirst == [i \in 1..K |-> brightness_list[((brightness_index + i - 1) % K) + 1]]

\* C4: the slots hold the K most recently pushed values (the initial 100
\* where none was pushed yet), the oldest at the write cursor; the value
\* returned is the truncated mean of the K slots; once the last K pushes were
\* all V, V is returned.
C4_SlidingWindow ==
    pc = "return" =>
        /\ OldestFirst = args
        /\ result * K <= SumSeq(args)
        /\ SumSeq(args) < (result + 1) * K
        /\ \A v \in PushValues : (\A i \in 1..K : args[i] = v) => result = v

\* six pushes of 57 that began with the cursor in the middle of the list and
\* with other values in it
C4_Witness ==
    /\ pc = "return"
    /\ brightness_index = 3
    /\ \A i \in 1..K : args[i] = 57
    /\ result = 57

\* C6: map_value(a, 0, c, 20, 100) is clamp(20 + floor(80*a/c), 20, 100):
\* 20 at amplitude 0, 100 from the ceiling on, non-decreasing in a, and
\* within [20, 100].  The amplitude is args.x / args.xd.
C6_MapValue ==
    pc = "return" =>
        LET x == args.x
            unit == args.in_max * args.xd
        IN  /\ result \in 20..100
            /\ x = 0 => result = 20
            /\ x >= unit => result = 100
            /\ x < unit => /\ (result - 20) * unit <= 80 * x
                           /\ 80 * x < (result - 20 + 1) * unit
            /\ \A x2 \in MapAmplitudes :
                 x2 <= x => map_value(x2, args.xd, 0, args.in_max, 20, 100) <= result

\* an amplitude inside the range of the device's widest ceiling, mapped to a
\* brightness strictly between the ends with the fraction cut off
C6_Witness ==
    /\ pc = "return"
    /\ args.in_max = AMPLITUDE_PEAK
    /\ args.xd = num_samples
    /\ result \in 21..99
    /\ (result - 20) * args.in_max * args.xd < 80 * args.x

ScannedBins == 1..(num_samples \div 2)
MaxOf(S) == CHOOSE m \in S : \A k \in S : k <= m
\* the float f (numerator, denominator) is i / sample_secs, the duration
\* being args.ticks / TICKS_PER_SEC
IsFrequencyOfBin(f, i) == f = <<i * TICKS_PER_SEC, args.ticks>>
IsLowestMaximum(i) ==
    /\ \A k \in ScannedBins : args.output[k] <= args.output[i]
    /\ \A k \in ScannedBins : k < i => args.output[k] < args.output[i]

\* C7 as claimed: for every spectrum, all zero or flat ones included, the
\* fundamental is i/D for the lowest bin i in [1, N/2] of maximum magnitude.
C7_Claimed ==
    pc = "return" =>
        \E i \in ScannedBins :
            IsFrequencyOfBin(result.fundamental_freq, i) /\ IsLowestMaximum(i)

\* C7 amended: when some bin in [1, N/2] has a positive magnitude the
\* fundamental is i/D for the lowest bin i of maximum magnitude; when all of
\* them are zero the fundamental returned is 0; bin 0 has no influence.
C7_Fundamental ==
    pc = "return" =>
        /\ IF \E k \in ScannedBins : args.output[k] > 0
           THEN \E i \in ScannedBins :
                   IsFrequencyOfBin(result.fundamental_freq, i) /\ IsLowestMaximum(i)
           ELSE result.fundamental_freq[1] = 0
        /\ \A dc \in Magnitudes :
             sample([args.output EXCEPT ![0] = dc], args.ticks, args.crossover,
                    num_samples).fundamental_freq = result.fundamental_freq

\* two bins tie for the maximum below a larger DC bin: the lower bin wins
C7_Witness ==
    /\ pc = "return"
    /\ args.output[0] > args.output[1]
    /\ args.output[1] > 0
    /\ args.output[1] = args.output[2]
    /\ IsLowestMaximum(1)
    /\ IsFrequencyOfBin(result.fundamental_freq, 1)

\* C8: low_freq_amp is 2*m/N >= 0, m the largest magnitude among the bins
\* i in [1, N/2] with i/D < crossover (0 when there is none); it is 0 when
\* crossover <= 1/D.
LowBins == { i \in ScannedBins : i * TICKS_PER_SEC < args.crossover * args.ticks }
C8_LowFreqAmp ==
    pc = "return" =>
        LET m == MaxOf({ args.output[i] : i \in LowBins } \cup {0})
            amp == result.low_freq_amp
        IN  /\ amp[2] > 0
            /\ amp[1] >= 0
            /\ amp[1] * num_samples = 2 * m * amp[2]
            /\ args.crossover * args.ticks <= TICKS_PER_SEC => amp[1] = 0

\* a bin at the crossover louder than the bass below it
C8_Witness ==
    /\ pc = "return"
    /\ args.ticks = 5000
    /\ args.crossover = REACT_CROSSOVER
    /\ args.output[1] = 4000
    /\ args.output[2] = 20000
    /\ result.low_freq_amp[1] * num_samples = 2 * 4000 * result.low_freq_amp[2]

\* the unscaled channels of the three 85 wide segments
RawWheel(p) ==
    IF p < 85 THEN <<255 - 3 * p, 3 * p, 0>>
    ELSE IF p < 170 THEN <<0, 255 - 3 * (p - 85), 3 * (p - 85)>>
    ELSE <<3 * (p - 170), 0, 255 - 3 * (p - 170)>>

\* C9: wheel(p) is (0,0,0) outside [0,255]; inside, each channel is
\* floor(raw*b/100) of the segment's raw value; so each channel is in
\* [0,255] and non-decreasing in b, and at b = 100 wheel(0) = (255,0,0),
\* wheel(85) = (0,255,0), wheel(170) = (0,0,255).
C9_Wheel ==
    pc = "return" =>
        LET p == args.pos
            b == avg_brightness
        IN  /\ (p < 0 \/ p > 255) => result = <<0, 0, 0>>
            /\ (p >= 0 /\ p <= 255) =>
                 \A c \in 1..3 : /\ result[c] * 100 <= RawWheel(p)[c] * b
                                 /\ RawWheel(p)[c] * b < (result[c] + 1) * 100
            /\ \A c \in 1..3 : result[c] \in 0..255
            /\ \A b2 \in 0..b : \A c \in 1..3 : wheel(p, 1, b2)[c] <= result[c]
            /\ (b = 100 /\ p = 0) => result = <<255, 0, 0>>
            /\ (b = 100 /\ p = 85) => result = <<0, 255, 0>>
            /\ (b = 100 /\ p = 170) => result = <<0, 0, 255>>

\* half brightness at a position inside the second segment: both channels
\* lose their fraction
C9_Witness ==
    /\ pc = "return"
    /\ args.pos = 100
    /\ avg_brightness = 50
    /\ result = <<0, 105, 22>>

(***************************************************************************)
(* button_handler.py: ButtonHandler, its pin interrupt and its one-shot    *)
(* timer.  The interrupt handler and the timer callback are scheduled      *)
(* callbacks: each runs to its end between two steps of the main context,  *)
(* and neither runs inside the other.  Time is not measured: the timer     *)
(* expires at any later step.                                              *)
(***************************************************************************)
\* confirmed presses after which the button is left alone
MaxPresses == 3

\* the button is pressed, released, or bounces: an edge on the pin requests
\* the interrupt handler (main.py line 77); edges that come before the
\* handler has run are served by one call
pin_edge ==
    /\ confirmed < MaxPresses
    /\ pin' = 1 - pin
    /\ irq' = TRUE
    /\ UNCHANGED <<brightness_list, brightness_index, avg_brightness, color_index,
                   last_non_zero_color, click_detected, click_index, click_functions,
                   np_left, np_right, pc, j, frame, frames, args, result, device,
                   tmp, timer, confirmed>>

\* mutant of call: an edge met while pending latches and arms again
call_rearm ==
    /\ irq
    /\ irq' = FALSE
    /\ tmp' = <<pin>>
    /\ timer' = TRUE
    /\ UNCHANGED <<brightness_list, brightness_index, avg_brightness, color_index,
                   last_non_zero_color, click_detected, click_index, click_functions,
                   np_left, np_right, pc, j, frame, frames, args, result, device,
                   pin, confirmed>>

\* ButtonHandler.__call__, lines 27-39
call ==
    /\ irq
    /\ irq' = FALSE
    /\ IF tmp # None
       THEN UNCHANGED <<tmp, timer>>
       ELSE IF pin = 0
            THEN UNCHANGED <<tmp, timer>>
            ELSE /\ tmp' = <<pin>>
                 /\ timer' = TRUE
    /\ UNCHANGED <<brightness_list, brightness_index, avg_brightness, color_index,
                   last_non_zero_color, click_detected, click_index, click_functions,
                   np_left, np_right, pc, j, frame, frames, args, result, device,
                   pin, confirmed>>

\* mutant of on_timer_end: the callback is called without the second read
on_timer_end_unchecked ==
    /\ timer
    /\ timer' = FALSE
    /\ button_pressed
    /\ confirmed' = confirmed + 1
    /\ tmp' = None
    /\ UNCHANGED <<pin, irq>>

\* ButtonHandler.on_timer_end, lines 21-25, run by the expiry of the timer
on_timer_end ==
    /\ timer
    /\ timer' = FALSE
    /\ IF <<pin>> = tmp
       THEN /\ button_pressed
            /\ confirmed' = confirmed + 1
       ELSE UNCHANGED <<brightness_list, brightness_index, avg_brightness, color_index,
                        last_non_zero_color, click_detected, click_index,
                        click_functions, np_left, np_right, pc, j, frame, frames,
                        args, result, device, confirmed>>
    /\ tmp' = None
    /\ UNCHANGED <<pin, irq>>

(***************************************************************************)
(* main.py: mode_switched, lines 80-85, in two steps: an interrupt can     *)
(* come between the test of click_detected and the assignment clearing it. *)
(***************************************************************************)
\* the calls of mode_switched: lines 95, 110 and 127
Polls == {"one_color_poll", "rainbow_poll", "rainbow_cycle_poll"}

\* mutant of mode_switched_test: the flag is consumed and the mode goes on
mode_switched_test_lost ==
    /\ pc \in Polls
    /\ click_detected
    /\ click_detected' = FALSE
    /\ UNCHANGED <<brightness_list, brightness_index, avg_brightness, color_index,
                   last_non_zero_color, click_index, click_functions,
                   np_left, np_right, pc, j, frame, frames, args, result, device, handler>>

\* line 82, click_detected found True
mode_switched_test ==
    /\ pc \in Polls
    /\ click_detected
    /\ pc' = "mode_switched"
    /\ UNCHANGED <<brightness_list, brightness_index, avg_brightness, color_index,
                   last_non_zero_color, click_detected, click_index, click_functions,
                   np_left, np_right, j, frame, frames, args, result, device, handler>>

\* lines 83-84: clear the flag and return True, on which each of the three
\* callers returns to the main loop
mode_switched_clear ==
    /\ pc = "mode_switched"
    /\ click_detected' = FALSE
    /\ pc' = "loop"
    /\ UNCHANGED <<brightness_list, brightness_index, avg_brightness, color_index,
                   last_non_zero_color, click_index, click_functions,
                   np_left, np_right, j, frame, frames, args, result, device, handler>>

\* line 82, click_detected found False: mode_switched returns False and the
\* caller goes on
one_color_sleep == ~click_detected /\ one_color_poll
rainbow_next == ~click_detected /\ rainbow_poll
rainbow_cycle_next == ~click_detected /\ rainbow_cycle_poll

(***************************************************************************)
(* The button beside the one colour modes.  The main context keeps         *)
(* running, a requested interrupt handler gets its call and an armed timer *)
(* expires.                                                                *)
(***************************************************************************)
ButtonConfigs == { <<"all_purple", "on_off">>, <<"on_off", "all_purple", "on_off">> }

InitButton == Start(ButtonConfigs)

MainButton ==
    \/ dispatch
    \/ on_off
    \/ all_purple
    \/ one_color_sleep
    \/ mode_switched_test
    \/ mode_switched_clear

NextButton ==
    \/ pin_edge
    \/ call
    \/ on_timer_end
    \/ MainButton

SpecButton ==
    /\ InitButton
    /\ [][NextButton]_vars
    /\ WF_vars(MainButton)
    /\ WF_vars(call)
    /\ WF_vars(on_timer_end)

(***************************************************************************)
(* Presses beside the modes that poll for them, the debounce in front of   *)
(* the callback left out.  The main context keeps running.                 *)
(***************************************************************************)
PressConfigs == { <<"rainbow", "all_purple">>, <<"rainbow_cycle", "on_off">> }

\* button_handler.py line 24: the callback is called, and counted
confirm ==
    /\ confirmed < MaxPresses
    /\ button_pressed
    /\ confirmed' = confirmed + 1
    /\ UNCHANGED <<tmp, timer, pin, irq>>

InitPress == Start(PressConfigs)

MainPress ==
    \/ dispatch
    \/ on_off
    \/ all_purple
    \/ one_color_sleep
    \/ rainbow_draw
    \/ rainbow_next
    \/ rainbow_cycle_draw
    \/ rainbow_cycle_next
    \/ mode_switched_test
    \/ mode_switched_clear

NextPress ==
    \/ confirm
    \/ MainPress

SpecPress ==
    /\ InitPress
    /\ [][NextPress]_vars
    /\ WF_vars(MainPress)

(***************************************************************************)
(* Properties of the debounced button                                      *)
(***************************************************************************)
\* a step of the interrupt handler: it serves the requested call
CallStep == irq /\ ~irq'
\* the expiry of the one-shot timer
ExpiryStep == timer /\ ~timer'
\* the step runs the callback button_pressed
CallbackStep == confirmed' # confirmed

\* C11: the callback runs only in the expiry of the timer, and only when the
\* pin then reads the asserted level latched at arming; an expiry that finds
\* the pin de-asserted runs no callback; the handler called while idle with
\* the pin at 0 arms nothing and runs no callback.  The callback is the only
\* writer of click_index.
C11_ConfirmOnStableRead ==
    [][ /\ CallbackStep => ExpiryStep /\ tmp = <<pin>> /\ tmp = <<1>>
        /\ click_index' # click_index => CallbackStep
        /\ ExpiryStep /\ pin = 0 => ~CallbackStep /\ UNCHANGED <<click_index, click_detected>>
        /\ CallStep /\ tmp = None /\ pin = 0 =>
              tmp' = None /\ ~timer' /\ ~CallbackStep ]_vars

\* a press has been confirmed and the handler is idle again with the pin low
C11_Witness == confirmed >= 1 /\ tmp = None /\ ~timer /\ pin = 0 /\ click_detected

\* C19: the handler is idle (tmp None, timer off) or pending (tmp latched,
\* timer armed); a call while pending changes neither; the timer is armed
\* only from idle, with the asserted level latched; every expiry leaves the
\* handler idle after at most one callback; an armed timer expires; idle,
\* the handler arms on a call that reads the pin asserted.
C19_TwoStates ==
    /\ [](timer <=> tmp # None)
    /\ [][ /\ CallStep /\ tmp # None => UNCHANGED <<tmp, timer, confirmed>>
           /\ ~timer /\ timer' => CallStep /\ tmp = None /\ tmp' = <<1>>
           /\ ExpiryStep => tmp' = None /\ confirmed' \in {confirmed, confirmed + 1}
           /\ tmp' # tmp => (CallStep /\ tmp = None) \/ ExpiryStep
           /\ CallStep /\ tmp = None /\ pin = 1 => timer' /\ tmp' = <<1>> ]_vars
    /\ (timer ~> ~timer)

\* pending, after a further edge took the pin low and the handler was called
\* for it
C19_Witness == tmp = <<1>> /\ timer /\ pin = 0 /\ ~irq /\ confirmed >= 1

(***************************************************************************)
(* Properties of the reactive frame beside the button                      *)
(***************************************************************************)
\* C12: where a reactive frame is about to compute its colour (line 182),
\* avg_brightness, which wheel reads, is the average that the push of this
\* frame returned (line 181).
C12_FrameBrightness == pc = "reactive_color" => avg_brightness = frame.returned

(***************************************************************************)
(* audio_handler.py: AudioHandler.sample in steps, one per reading, with   *)
(* the failure of a reading.  read_u16 is the hardware: it returns a       *)
(* reading or raises.  utils.spectrogram is the FFT of the ulab library:   *)
(* the spectrum it returns is an input of the model, not computed from the *)
(* readings.                                                               *)
(***************************************************************************)
\* what read_u16 returns; the value of a reading has no effect in the model,
\* the spectrum being an input
Readings == {512}
\* readings a failed call may find in the buffer and still fail
MaxStale == 4

\* mutant of sample_begin: the call starts by blanking the strips
sample_begin_blank ==
    /\ pc \in {"reactive", "call"}
    /\ reads' = 0
    /\ pc' = "sampling"
    /\ np_left' = write(fill(np_left, OFF))
    /\ np_right' = write(fill(np_right, OFF))
    /\ UNCHANGED <<brightness_list, brightness_index, avg_brightness, color_index,
                   last_non_zero_color, click_detected, click_index, click_functions,
                   j, frame, frames, args, result,
                   samples, encoder_value, handler>>

\* line 30 and the loop header of line 31: sample() is entered, by reactive
\* (main.py line 176) or by the caller of the function level specification
sample_begin ==
    /\ pc \in {"reactive", "call"}
    /\ reads' = 0
    /\ pc' = "sampling"
    /\ UNCHANGED <<brightness_list, brightness_index, avg_brightness, color_index,
                   last_non_zero_color, click_detected, click_index, click_functions,
                   np_left, np_right, j, frame, frames, args, result,
                   samples, encoder_value, handler>>

\* line 32, read_u16 returns
read_u16 ==
    /\ pc = "sampling"
    /\ reads < num_samples
    /\ \E reading \in Readings : samples' = Append(samples, reading)
    /\ reads' = reads + 1
    /\ UNCHANGED <<brightness_list, brightness_index, avg_brightness, color_index,
                   last_non_zero_color, click_detected, click_index, click_functions,
                   np_left, np_right, pc, j, frame, frames, args, result,
                   encoder_value, handler>>

\* line 32, read_u16 raises: nothing in sample() or reactive() catches, the
\* exception leaves both
read_u16_raises ==
    /\ pc = "sampling"
    /\ reads < num_samples
    /\ Len(samples) <= MaxStale
    /\ pc' = "raised"
    /\ UNCHANGED <<brightness_list, brightness_index, avg_brightness, color_index,
                   last_non_zero_color, click_detected, click_index, click_functions,
                   np_left, np_right, j, frame, frames, args, result,
                   device, handler>>

\* lines 33-59: the buffer becomes the array and is cleared, the array is
\* analysed; result keeps the array beside what sample() returns
sample_return ==
    /\ pc = "sampling"
    /\ reads = num_samples
    /\ \E output \in FrameSpectra, ticks \in FrameTicks :
         LET returned == sample(output, ticks, REACT_CROSSOVER, num_samples)
         IN  result' = [array |-> samples,
                        fundamental_freq |-> returned.fundamental_freq,
                        low_freq_amp |-> returned.low_freq_amp]
    /\ samples' = <<>>
    /\ pc' = "return"
    /\ UNCHANGED <<brightness_list, brightness_index, avg_brightness, color_index,
                   last_non_zero_color, click_detected, click_index, click_functions,
                   np_left, np_right, j, frame, frames, args,
                   reads, encoder_value, handler>>

(***************************************************************************)
(* main.py: reactive, lines 179-181, after sample() has returned           *)
(***************************************************************************)
reactive_store ==
    /\ pc = "return"
    /\ \E encoder \in EncoderValues :
         LET low_freq_amp == result.low_freq_amp
             brightness == map_value(low_freq_amp[1], low_freq_amp[2], 0,
                                     AMPLITUDE_PEAK - (encoder * 50), 20, 100)
             pushed == average_brightness(brightness_list, brightness_index, brightness)
         IN  /\ brightness_list' = pushed.list
             /\ brightness_index' = pushed.index
             /\ avg_brightness' = pushed.ret
             /\ frame' = [brightness |-> brightness, returned |-> pushed.ret,
                          color |-> None, emitted |-> None]
    /\ pc' = "reactive_color"
    /\ UNCHANGED <<color_index, last_non_zero_color, click_detected, click_index,
                   click_functions, np_left, np_right, j, frames, args, result,
                   device, handler>>

\* the main loop enters reactive; a run holds at most MaxFrames frames
dispatch_bounded ==
    /\ frames < MaxFrames
    /\ frames' = frames + 1
    /\ pc = "loop"
    /\ pc' = click_functions[click_index + 1]
    /\ j' = 0
    /\ UNCHANGED <<brightness_list, brightness_index, avg_brightness, color_index,
                   last_non_zero_color, click_detected, click_index,
                   click_functions, np_left, np_right, frame, args, result,
                   device, handler>>

(***************************************************************************)
(* The program with the acquisition in steps.  An exception that leaves    *)
(* reactive() leaves the main loop of lines 204-205 as well: the main      *)
(* context stops, the button callback stays in place.                      *)
(***************************************************************************)
AcquireConfigs == { <<"reactive">>, <<"reactive", "all_purple">> }

InitAcquire == Start(AcquireConfigs)

NextAcquire ==
    \/ press
    \/ dispatch_bounded
    \/ sample_begin
    \/ read_u16
    \/ read_u16_raises
    \/ sample_return
    \/ reactive_store
    \/ reactive_render
    \/ all_purple
    \/ one_color_poll

SpecAcquire == InitAcquire /\ [][NextAcquire]_vars

\* C13: a step of a reactive frame from its entry up to and including the
\* failure of a reading
AcquireStep ==
    /\ pc \in {"reactive", "sampling"}
    /\ pc' \in {"sampling", "raised"}
    /\ pc' # pc \/ reads' # reads

\* C13: when read_u16 raises, the exception leaves reactive(); no step of
\* the failed frame has changed brightness_list, brightness_index,
\* avg_brightness, color_index, last_non_zero_color or either strip, and
\* nothing is filled or written afterwards.
C13_FailedFrameLeavesNoTrace ==
    [][ /\ AcquireStep =>
              UNCHANGED <<brightness_list, brightness_index, avg_brightness,
                          color_index, last_non_zero_color, np_left, np_right>>
        /\ pc = "raised" =>
              /\ pc' = "raised"
              /\ UNCHANGED <<brightness_list, brightness_index, color_index,
                             last_non_zero_color, np_left, np_right>> ]_vars

\* a reading has failed in the third frame, after some readings of that
\* frame, with the strips showing the colour of the frame before
C13_Witness ==
    /\ pc = "raised"
    /\ frames = 3
    /\ Len(samples) >= 2
    /\ brightness_index = 2
    /\ color_index = 2
    /\ avg_brightness < 100
    /\ np_left.leds[1] # OFF

(***************************************************************************)
(* AudioHandler.sample called again and again by a caller that goes on     *)
(* after a failure.                                                        *)
(***************************************************************************)
\* the caller of sample(), after a return or after catching the exception
sample_again ==
    /\ pc \in {"return", "raised"}
    /\ pc' = "call"
    /\ UNCHANGED <<brightness_list, brightness_index, args, result>>
    /\ Idle

InitBatch ==
    /\ Machine(LongConfigs)
    /\ avg_brightness = 100
    /\ pc = "call"
    /\ args = None
    /\ result = None

NextBatch ==
    \/ sample_begin
    \/ read_u16
    \/ read_u16_raises
    \/ sample_return
    \/ sample_again

SpecBatch == InitBatch /\ [][NextBatch]_vars

\* C14: the buffer is empty where a call of sample() starts to read, and the
\* array a call analyses holds num_samples readings.
C14_FreshBatch ==
    /\ pc = "sampling" /\ reads = 0 => samples = <<>>
    /\ pc = "return" => Len(result.array) = num_samples

(***************************************************************************)
(* Order of the steps of a reactive frame                                  *)
(***************************************************************************)
\* the step that stores the average of the push, line 181
FramePushes == pc \in {"reactive", "return"} /\ pc' = "reactive_color"

C16_FlagConsumed == [][ pc # "loop" /\ pc' = "loop" => ~click_detected' ]_vars

\* the main context is at the entry of the mode click_index selects
Selected == pc = click_functions[click_index + 1]
\* the polls inside the two 255 step loops
LoopPolls == {"rainbow_poll", "rainbow_cycle_poll"}

\* C17: click_index has advanced once per call of the callback, each call
\* sets the flag, and the flag stays set until mode_switched clears it and
\* returns True; a rainbow or rainbow_cycle loop that polls with the flag
\* set leaves for the main loop instead of going on with its iterations;
\* and whenever the main context is not at the entry of the selected mode,
\* it gets there.
C17_NoPressLost ==
    /\ [](click_index = confirmed % Len(click_functions))
    /\ [][ /\ confirmed' # confirmed =>
                 /\ confirmed' = confirmed + 1
                 /\ click_index' = (click_index + 1) % Len(click_functions)
                 /\ click_detected'
           /\ click_detected /\ ~click_detected' => pc = "mode_switched" /\ pc' = "loop"
           /\ pc \in LoopPolls /\ click_detected /\ pc' # pc => pc' = "mode_switched"
           /\ pc = "mode_switched" /\ pc' # pc => pc' = "loop" ]_vars
    /\ (~Selected ~> Selected)

\* inside a rainbow loop, mode_switched has found the flag set and has not
\* cleared it yet, and two presses have been confirmed: the second one
\* before the poll or between its test and its clear
C17_Witness ==
    /\ pc = "mode_switched"
    /\ j >= 1
    /\ click_detected
    /\ confirmed = 2
    /\ click_index = 0

\* C18: where rainbow or rainbow_cycle is about to call wheel(),
\* avg_brightness is 100.
C18_FullBrightness == pc \in {"rainbow", "rainbow_cycle"} => avg_brightness = 100

(***************************************************************************)
(* main.py: the rotary encoder, lines 57-63, and the two places that read  *)
(* it: the ceiling of the amplitude map in reactive (line 179) and the     *)
(* sleep of the rainbow modes (lines 113 and 129).  RotaryIRQ is a library *)
(* class; with range_mode RANGE_BOUNDED it keeps its value between min_val *)
(* and max_val, starting at min_val.                                       *)
(***************************************************************************)
\* numerators of low_freq_amp, over num_samples
EncoderAmplitudes == {0, 15000, 30000, 60000}

\* the knob is turned by one detent, clockwise (1) or back (-1)
rotate(detent) ==
    /\ encoder_value' = Max(ENCODER_MIN, Min(ENCODER_MAX, encoder_value + detent))
    /\ UNCHANGED <<brightness_list, brightness_index, pc, args, result,
                   samples, reads>>
    /\ UNCHANGED <<avg_brightness, color_index, last_non_zero_color, click_detected,
                   click_index, click_functions, np_left, np_right, j, frame, frames,
                   handler>>

rotate_any == \E detent \in {-1, 1} : rotate(detent)

\* mutant of reactive_map: the encoder lowers the ceiling by 100 a detent
reactive_map_steep ==
    /\ \E x \in EncoderAmplitudes :
         LET in_max == AMPLITUDE_PEAK - (encoder_value * 100)
         IN  result' = [in_max |-> in_max,
                        divisor |-> (in_max - 0) * num_samples,
                        brightness |-> IF in_max > 0
                                       THEN map_value(x, num_samples, 0, in_max, 20, 100)
                                       ELSE 0]
    /\ pc' = "mapped"
    /\ UNCHANGED <<brightness_list, brightness_index, args>>
    /\ Idle

\* line 179: the ceiling, the divisor map_value divides by, and brightness
reactive_map ==
    /\ \E x \in EncoderAmplitudes :
         LET in_max == AMPLITUDE_PEAK - (encoder_value * 50)
         IN  result' = [in_max |-> in_max,
                        divisor |-> (in_max - 0) * num_samples,
                        brightness |-> IF in_max > 0
                                       THEN map_value(x, num_samples, 0, in_max, 20, 100)
                                       ELSE 0]
    /\ pc' = "mapped"
    /\ UNCHANGED <<brightness_list, brightness_index, args>>
    /\ Idle

\* lines 113 and 129: the argument of time.sleep_ms
rainbow_sleep ==
    /\ result' = [sleep_ms |-> WAIT - encoder_value * 2]
    /\ pc' = "slept"
    /\ UNCHANGED <<brightness_list, brightness_index, args>>
    /\ Idle

InitEncoder ==
    /\ Machine({<<"reactive", "rainbow">>})
    /\ avg_brightness = 100
    /\ pc = "call"
    /\ args = None
    /\ result = None

NextEncoder ==
    \/ rotate_any
    \/ reactive_map
    \/ rainbow_sleep

SpecEncoder == InitEncoder /\ [][NextEncoder]_vars

\* C20: the encoder value stays in [0, 50]; the ceiling of every amplitude
\* map is in [2500, 5000], so the divisor is positive and brightness comes
\* out in [20, 100]; the sleep of the rainbow modes is never negative.
C20_EncoderRange ==
    /\ encoder_value \in ENCODER_MIN..ENCODER_MAX
    /\ pc = "mapped" =>
          /\ result.in_max \in 2500..AMPLITUDE_PEAK
          /\ result.divisor > 0
          /\ result.brightness \in 20..100
    /\ pc = "slept" => result.sleep_ms \in 0..WAIT

\* the knob fully turned up: the ceiling at its lowest, or no sleep at all
C20_Witness ==
    /\ encoder_value = ENCODER_MAX
    /\ \/ pc = "mapped" /\ result.in_max = 2500 /\ result.brightness = 100
       \/ pc = "slept" /\ result.sleep_ms = 0

====
